---- MODULE Spec2Model ----
(***************************************************************************)
(* Model of src/ds.py: the paginated catalogue fetch with its per-page     *)
(* retry loop (fetch_products_from_trendyol) and the snapshot              *)
(* reconciliation (smart_merge_prev_current, build_diff_report).           *)
(*                                                                         *)
(* Two specifications share the variables:                                 *)
(*   Spec       one call of fetch_products_from_trendyol, one action per   *)
(*              HTTP request, against a backend that holds `catalog`       *)
(*              records and may answer any request with 200, 429, another  *)
(*              error status, a transport error or an unusable body;       *)
(*   SpecMerge  one run of the comparison step (ds.py 260-268) on a        *)
(*              previous and a current snapshot drawn from bounded sets.   *)
(***************************************************************************)
EXTENDS Integers, Sequences, FiniteSets, TLC

VARIABLES
    \* ---- fetch_products_from_trendyol ----
    pc,                \* "loop" | "returned" | "raised"
    catalog,           \* number of records the backend holds (input)
    page_size,         \* the page_size argument (input)
    page,              \* page cursor
    url,               \* page number carried by the url built at line 50
    attempt,           \* loop variable of `for attempt in range(max_retries)`
    all_products,      \* accumulated records
    products_on_page,  \* [bound, items]: unbound until a first page is parsed
    df,                \* returned collection (valid when pc = "returned")
    err,               \* returned error ("None" when there is none)
    nreq,              \* history: requests issued by this call
    ppage,             \* history: page number of the latest request
    preq,              \* history: requests issued so far for page ppage
    outcome,           \* history: outcome of the latest request
    seen,              \* history: outcomes received by this call
    pseen,             \* history: outcomes received for page ppage
    exhausted,         \* history: pages whose 5 attempts all got 429
    \* ---- comparison step ----
    mpc,               \* "uploaded" | "merged" | "merge_err" | "error_shown" |
                       \* "reported" | "done" | "raised"
    df_prev,           \* the uploaded previous snapshot (caller's object)
    df_current,        \* st.session_state.df_today_norm
    merged,            \* joined view
    merge_err,         \* error of smart_merge_prev_current ("None" if none)
    missing_df,        \* rows of merged tagged left_only
    diff_df,           \* rows of build_diff_report(merged)
    defined,           \* names the comparison step has bound in this run
    \* ---- normalize_products_df ----
    n_pc,              \* "start" | "once" | "twice"
    n_in,              \* the raw collection handed to normalize_products_df
    n_out,             \* normalize_products_df(n_in)
    n_again,           \* normalize_products_df(n_out)
    \* ---- session and fetch cache ----
    a_pc,              \* "idle" | "fetching" | "raised": position of the fetch
                       \* handler
    cache,             \* st.cache_data entry for the fetch arguments
    df_today,          \* st.session_state.df_today
    presses,           \* history: fetch-button presses so far
    last_good          \* history: result of the latest fetch without error
                       \* and with records

fetchVars == <<pc, catalog, page_size, page, url, attempt, all_products,
               products_on_page, df, err, nreq, ppage, preq, outcome, seen, pseen,
               exhausted>>
mergeVars == <<mpc, df_prev, df_current, merged, merge_err, missing_df, diff_df,
               defined>>
normVars == <<n_pc, n_in, n_out, n_again>>
appVars == <<a_pc, cache, df_today, presses, last_good>>
vars == <<fetchVars, mergeVars, normVars, appVars>>

(***************************************************************************)
(* Bounds                                                                  *)
(***************************************************************************)
MaxRecords == 3
MaxPageSize == 2
MaxPage == MaxRecords + 2

(***************************************************************************)
(* Program constants                                                       *)
(***************************************************************************)
max_retries == 5

\* the most requests a call can issue for pages 0..MaxPage; the history
\* counter nreq stops counting there
MaxReq == max_retries * (MaxPage + 1)

Min(a, b) == IF a < b THEN a ELSE b
Max(a, b) == IF a > b THEN a ELSE b

(***************************************************************************)
(* The backend: records 1..catalog, served page by page.  Page p of size n *)
(* holds records p*n+1 .. min((p+1)*n, catalog); pages past the end are    *)
(* empty.                                                                  *)
(***************************************************************************)
PageLen(p) == Min(page_size, Max(0, catalog - p * page_size))
PageOf(p) == [i \in 1..PageLen(p) |-> p * page_size + i]
WholeCatalog == [i \in 1..catalog |-> i]
LastPage == catalog \div page_size

EmptyFrame == <<>>
Unbound == [bound |-> FALSE, items |-> <<>>]

FetchInit ==
    /\ pc = "loop"
    /\ catalog \in 0..MaxRecords
    /\ page_size \in 1..MaxPageSize
    /\ page = 0
    /\ url = 0
    /\ attempt = 0
    /\ all_products = <<>>
    /\ products_on_page = Unbound
    /\ df = EmptyFrame
    /\ err = "None"
    /\ nreq = 0
    /\ ppage = 0 - 1
    /\ preq = 0
    /\ outcome = "none"
    /\ seen = {}
    /\ pseen = {}
    /\ exhausted = {}

\* requests.get at line 53: one more request, for the url built at line 50
Issue(o) ==
    /\ pc = "loop"
    /\ nreq' = IF nreq < MaxReq THEN nreq + 1 ELSE nreq
    /\ ppage' = url
    /\ preq' = IF ppage = url THEN preq + 1 ELSE 1
    /\ outcome' = o
    /\ seen' = seen \cup {o}
    /\ pseen' = IF ppage = url THEN pseen \cup {o} ELSE {o}
    /\ UNCHANGED <<catalog, page_size>>
    /\ UNCHANGED <<mergeVars, normVars, appVars>>

\* return df, None (lines 77-78)
ReturnOk(ap) ==
    /\ pc' = "returned"
    /\ df' = ap
    /\ err' = "None"
    /\ UNCHANGED <<page, url, attempt>>

\* variant: the failure return hands back what was accumulated so far
ReturnErr_partial(e) ==
    /\ pc' = "returned"
    /\ df' = all_products
    /\ err' = e
    /\ UNCHANGED <<page, url, attempt, all_products, products_on_page, exhausted>>

\* return pd.DataFrame(), "<message>" (lines 68 and 70)
ReturnErr(e) ==
    /\ pc' = "returned"
    /\ df' = EmptyFrame
    /\ err' = e
    /\ UNCHANGED <<page, url, attempt, all_products, products_on_page, exhausted>>

\* variant: the end-of-data test is `<=`, so a full page ends the fetch too
AfterFor_le(ap, pop) ==
    IF ~pop.bound
    THEN /\ pc' = "raised"
         /\ UNCHANGED <<page, url, attempt, df, err>>
    ELSE IF Len(pop.items) <= page_size
         THEN ReturnOk(ap)
         ELSE /\ page < MaxPage
              /\ page' = page + 1
              /\ url' = page + 1
              /\ attempt' = 0
              /\ pc' = "loop"
              /\ UNCHANGED <<df, err>>

\* lines 72-75 and the next turn of `while True` (line 50): ap and pop are
\* the values of all_products and products_on_page when the for loop is left
AfterFor(ap, pop) ==
    IF ~pop.bound
    THEN \* len(products_on_page) raises UnboundLocalError, caught nowhere
         /\ pc' = "raised"
         /\ UNCHANGED <<page, url, attempt, df, err>>
    ELSE IF Len(pop.items) < page_size
         THEN ReturnOk(ap)
         ELSE /\ page < MaxPage
              /\ page' = page + 1
              /\ url' = page + 1
              /\ attempt' = 0
              /\ pc' = "loop"
              /\ UNCHANGED <<df, err>>

\* variant: a retry moves the page cursor on
NextAttempt_advance(ap, pop) ==
    IF attempt + 1 < max_retries
    THEN /\ attempt' = attempt + 1
         /\ page < MaxPage
         /\ page' = page + 1
         /\ url' = page + 1
         /\ UNCHANGED <<pc, df, err>>
    ELSE AfterFor(ap, pop)

\* `continue` inside the for loop: the next attempt, or the loop runs out
NextAttempt(ap, pop) ==
    IF attempt + 1 < max_retries
    THEN /\ attempt' = attempt + 1
         /\ UNCHANGED <<pc, page, url, df, err>>
    ELSE AfterFor(ap, pop)

\* variant: the handler retries without looking at the attempt number
OnRequestException_unbounded ==
    /\ attempt' = attempt
    /\ UNCHANGED <<pc, page, url, df, err, all_products, products_on_page, exhausted>>

\* except requests.exceptions.RequestException (lines 64-68)
OnRequestException ==
    IF attempt < max_retries - 1
    THEN /\ attempt' = attempt + 1
         /\ UNCHANGED <<pc, page, url, df, err, all_products, products_on_page, exhausted>>
    ELSE ReturnErr("api")

\* status 200 with a well-formed page (lines 59-63, then 72-75)
Resp200 ==
    /\ Issue("200")
    /\ all_products' = all_products \o PageOf(url)
    /\ products_on_page' = [bound |-> TRUE, items |-> PageOf(url)]
    /\ exhausted' = exhausted
    /\ AfterFor(all_products', products_on_page')

\* status 429 (lines 54-58): sleep 2^attempt, continue
Resp429 ==
    /\ Issue("429")
    /\ UNCHANGED <<all_products, products_on_page>>
    /\ exhausted' = IF attempt + 1 < max_retries THEN exhausted ELSE exhausted \cup {page}
    /\ NextAttempt(all_products, products_on_page)

\* another error status: raise_for_status (line 59) raises HTTPError, which
\* is a RequestException
RespHttpError ==
    /\ Issue("http")
    /\ OnRequestException

\* requests.get raises (timeout, connection error)
TransportError ==
    /\ Issue("transport")
    /\ OnRequestException

\* status 200 with a body the code cannot use.  resp.json() on a body that is
\* not JSON raises requests' JSONDecodeError, a RequestException in current
\* requests and a plain ValueError in older ones; a JSON body that is not an
\* object, or whose "products" is null, raises AttributeError / TypeError.
RespBadBody ==
    /\ Issue("badbody")
    /\ \E viaRequestException \in BOOLEAN :
          IF viaRequestException THEN OnRequestException ELSE ReturnErr("data")

(***************************************************************************)
(* Snapshots.  A frame is [cols, rows]: cols the column names in order,    *)
(* rows a sequence of functions from the column names to values.  A value  *)
(* is a tagged pair: <<"int", n>>, <<"str", s>> or Null (None / NaN, the   *)
(* values pd.isna accepts).                                                *)
(***************************************************************************)
MaxPrevRows == 2
MaxCurRows == 2
MaxKey == 2
MaxVal == 2
MaxIdCols == 2

\* a session slot: None, or the collection stored in it
None == [set |-> FALSE, df |-> <<>>]
Some(d) == [set |-> TRUE, df |-> d]
NoEntry == [hit |-> FALSE, df |-> <<>>, err |-> "None"]

Null == <<"null", 0>>
IntV(n) == <<"int", n>>
StrV(t) == <<"str", t>>
isna(v) == v[1] = "null"

Range(f) == {f[i] : i \in DOMAIN f}

desired_cols ==
    <<"productContentId", "barcode", "title", "brand", "stockCode",
      "listPrice", "salePrice", "currencyType", "vatRate", "stockUnitType",
      "quantity", "approved", "lastUpdateDate">>

comparable_cols ==
    <<"barcode", "title", "salePrice", "listPrice", "currencyType",
      "vatRate", "approved", "quantity">>

alt_keys == <<"productContentId", "contentId", "productId", "id">>

KeyCol == "productContentId"

\* str() of a Python int, for the integers the inputs use
IntStr(n) ==
    CASE n = 0 -> "0" [] n = 1 -> "1" [] n = 2 -> "2" [] n = 3 -> "3"
      [] n = 4 -> "4" [] n = 5 -> "5" [] n = 6 -> "6" [] n = 7 -> "7"
      [] n = 8 -> "8" [] n = 9 -> "9"

\* one element of Series.astype(str): an int becomes its decimal string, a
\* string stays, a missing value becomes the string "nan"
AsStr(v) ==
    CASE v[1] = "int" -> StrV(IntStr(v[2]))
      [] v[1] = "str" -> v
      [] OTHER -> StrV("nan")

\* variant: the identity column is left as it was read
coerce_product_id_noop(f) == f

\* coerce_product_id: the identity column, when present, becomes strings
coerce_product_id(f) ==
    IF KeyCol \in Range(f.cols)
    THEN [f EXCEPT !.rows = [i \in DOMAIN f.rows |->
                               [f.rows[i] EXCEPT ![KeyCol] = AsStr(@)]]]
    ELSE f

\* variant: the last candidate that is a column wins
FoundKey_last(cols) ==
    IF \E i \in DOMAIN alt_keys : alt_keys[i] \in Range(cols)
    THEN alt_keys[CHOOSE i \in DOMAIN alt_keys :
                    /\ alt_keys[i] \in Range(cols)
                    /\ \A j \in (i + 1)..Len(alt_keys) : alt_keys[j] \notin Range(cols)]
    ELSE ""

\* lines 130-135: the first name of alt_keys that is a column, "" for None
FoundKey(cols) ==
    IF \E i \in DOMAIN alt_keys : alt_keys[i] \in Range(cols)
    THEN alt_keys[CHOOSE i \in DOMAIN alt_keys :
                    /\ alt_keys[i] \in Range(cols)
                    /\ \A j \in 1..(i - 1) : alt_keys[j] \notin Range(cols)]
    ELSE ""

\* df.rename(columns={found: "productContentId"}): a new frame
Rename(f, found) ==
    LET nm(c) == IF c = found THEN KeyCol ELSE c
    IN  [cols |-> [i \in DOMAIN f.cols |-> nm(f.cols[i])],
         rows |-> [i \in DOMAIN f.rows |->
                     [n \in {nm(c) : c \in Range(f.cols)} |->
                        f.rows[i][CHOOSE c \in Range(f.cols) : nm(c) = n]]]]

\* pd.merge naming: a non-key column present on both sides gets the suffix
LeftName(c, L, R) ==
    IF c # KeyCol /\ c \in Range(R.cols) THEN c \o "_prev" ELSE c
RightName(c, L, R) ==
    IF c \in Range(L.cols) THEN c \o "_current" ELSE c

RightCols(R) == SelectSeq(R.cols, LAMBDA c : c # KeyCol)

MergedCols(L, R) ==
    [i \in DOMAIN L.cols |-> LeftName(L.cols[i], L, R)]
    \o [i \in DOMAIN RightCols(R) |-> RightName(RightCols(R)[i], L, R)]
    \o <<"_merge">>

\* one row of the join: left row l with right row r, or with no right row
JoinRow(L, R, l, r, matched) ==
    [n \in Range(MergedCols(L, R)) |->
        IF n = "_merge"
        THEN StrV(IF matched THEN "both" ELSE "left_only")
        ELSE IF \E c \in Range(L.cols) : LeftName(c, L, R) = n
        THEN l[CHOOSE c \in Range(L.cols) : LeftName(c, L, R) = n]
        ELSE IF matched
        THEN r[CHOOSE c \in Range(RightCols(R)) : RightName(c, L, R) = n]
        ELSE Null]

\* right rows whose key equals k, in right order
Matches(R, k) == SelectSeq(R.rows, LAMBDA r : r[KeyCol] = k)

\* the rows one left row contributes to a how="left" merge
JoinOf(L, R, l) ==
    LET m == Matches(R, l[KeyCol])
    IN  IF m = <<>>
        THEN <<JoinRow(L, R, l, l, FALSE)>>
        ELSE [j \in DOMAIN m |-> JoinRow(L, R, l, m[j], TRUE)]

RECURSIVE JoinRows(_, _, _)
JoinRows(L, R, n) ==
    IF n = 0 THEN <<>> ELSE JoinRows(L, R, n - 1) \o JoinOf(L, R, L.rows[n])

\* pd.merge(df_prev, df_current, on="productContentId", how="left",
\*          suffixes=("_prev", "_current"), indicator=True)
pd_merge(L, R) ==
    [cols |-> MergedCols(L, R), rows |-> JoinRows(L, R, Len(L.rows))]

NoFrame == [cols |-> <<>>, rows |-> <<>>]

\* row.get(name): None when the row has no such column
Get(row, n) == IF n \in DOMAIN row THEN row[n] ELSE Null

\* lines 177-182: the tracked columns of a joined row that count as changed
ChangedCols(row) ==
    {c \in Range(comparable_cols) :
        LET prev_v == Get(row, c \o "_prev")
            cur_v == Get(row, c \o "_current")
        IN  /\ ~(isna(prev_v) /\ isna(cur_v))
            /\ \/ (isna(prev_v) /\ ~isna(cur_v))
               \/ (~isna(prev_v) /\ isna(cur_v))
               \/ prev_v # cur_v}

\* the dict row_diffs of a changed row
RowDiffs(row) ==
    [n \in {KeyCol} \cup {c \o "_prev" : c \in ChangedCols(row)}
                    \cup {c \o "_current" : c \in ChangedCols(row)} |->
        Get(row, n)]

\* build_diff_report: one entry per joined row that has a changed column
build_diff_report(m) ==
    LET changed == SelectSeq(m.rows, LAMBDA row : ChangedCols(row) # {})
    IN  [i \in DOMAIN changed |-> RowDiffs(changed[i])]

\* merged[merged["_merge"] == "left_only"]
LeftOnly(m) == SelectSeq(m.rows, LAMBDA row : row["_merge"] = StrV("left_only"))

(***************************************************************************)
(* The comparison step (lines 260-268)                                     *)
(***************************************************************************)
VaryCols == <<"salePrice">>
Vals == {Null} \cup {IntV(n) : n \in 1..MaxVal}

SeqsUpTo(S, n) == UNION {[1..m -> S] : m \in 1..n}

\* normalised current snapshots: the 13 canonical columns
CurRows ==
    {[c \in Range(desired_cols) |->
        IF c = KeyCol THEN IntV(k) ELSE IF c = "salePrice" THEN v ELSE Null] :
     k \in 1..MaxKey, v \in Vals}
CurFrames == {[cols |-> desired_cols, rows |-> r] : r \in SeqsUpTo(CurRows, MaxCurRows)}

\* uploaded previous snapshots: any non-empty choice of identity columns (at
\* most MaxIdCols of them) and tracked columns, the identity read as numbers
\* or as text
PrevCols(chosen) == SelectSeq(alt_keys \o VaryCols, LAMBDA c : c \in chosen)
PrevRows(chosen, kind) ==
    {[c \in chosen |->
        IF c \in Range(alt_keys)
        THEN (IF kind = "int" THEN IntV(k) ELSE StrV(IntStr(k)))
        ELSE v] :
     k \in 1..MaxKey, v \in (IF Range(VaryCols) \cap chosen = {} THEN {Null} ELSE Vals)}
PrevFrames ==
    {[cols |-> PrevCols(chosen), rows |-> r] :
        <<chosen, r>> \in UNION {{ch} \X SeqsUpTo(PrevRows(ch, kind), MaxPrevRows) :
                                   ch \in {c \in SUBSET Range(alt_keys \o VaryCols) :
                                             /\ c # {}
                                             /\ Cardinality(c \cap Range(alt_keys)) <= MaxIdCols},
                                   kind \in {"int", "str"}}}

MergeInit ==
    /\ mpc = "uploaded"
    /\ df_current \in CurFrames
    /\ \/ df_prev \in PrevFrames
       \/ df_prev = df_current
    /\ merged = NoFrame
    /\ merge_err = "None"
    /\ missing_df = <<>>
    /\ diff_df = <<>>
    /\ defined = {"df_prev"}

HasKey(f) == KeyCol \in Range(f.cols)

\* the previous snapshot as the join sees it (lines 128-141)
ResolvedPrev(f) ==
    coerce_product_id(IF HasKey(f) THEN f ELSE Rename(f, FoundKey(f.cols)))

\* smart_merge_prev_current(df_prev, st.session_state.df_today_norm):
\* coerce_product_id assigns the column in place, so the session's current
\* snapshot changes, and the caller's previous snapshot too unless rename
\* made a new frame
SmartMerge ==
    /\ mpc = "uploaded"
    /\ IF ~HasKey(df_prev) /\ FoundKey(df_prev.cols) = ""
       THEN /\ merged' = NoFrame
            /\ merge_err' = "nokey"
            /\ mpc' = "merge_err"
            /\ UNCHANGED <<df_prev, df_current>>
       ELSE /\ merged' = pd_merge(ResolvedPrev(df_prev), coerce_product_id(df_current))
            /\ merge_err' = "None"
            /\ mpc' = "merged"
            /\ df_prev' = IF HasKey(df_prev) THEN coerce_product_id(df_prev) ELSE df_prev
            /\ df_current' = coerce_product_id(df_current)
    /\ defined' = defined \cup {"merged", "merge_err"}
    /\ UNCHANGED <<missing_df, diff_df>>
    /\ UNCHANGED <<fetchVars, normVars, appVars>>

\* lines 262-263: st.error(merge_err)
ShowMergeError ==
    /\ mpc = "merge_err"
    /\ mpc' = "error_shown"
    /\ UNCHANGED <<df_prev, df_current, merged, merge_err, missing_df, diff_df, defined>>
    /\ UNCHANGED <<fetchVars, normVars, appVars>>

\* lines 264-268: missing_df and diff_df
BuildReports ==
    /\ mpc = "merged"
    /\ missing_df' = LeftOnly(merged)
    /\ diff_df' = build_diff_report(merged)
    /\ mpc' = "reported"
    /\ defined' = defined \cup {"missing_df", "diff_df"}
    /\ UNCHANGED <<df_prev, df_current, merged, merge_err>>
    /\ UNCHANGED <<fetchVars, normVars, appVars>>

(***************************************************************************)
(* normalize_products_df                                                   *)
(***************************************************************************)
MaxNormRows == 2

DateV(d) == <<"dt", d>>

\* a date string as pd.to_datetime reads it (month first); Null for a
\* string that is no date (errors="coerce")
ParseDate(t) ==
    CASE t = "01/02/2024" -> DateV("2024-01-02")
      [] t = "02/01/2024" -> DateV("2024-02-01")
      [] OTHER -> Null

\* variant: the parsed date is written back as day-first text
to_datetime_text(v) ==
    CASE v[1] = "str" ->
           (CASE ParseDate(v[2]) = DateV("2024-01-02") -> StrV("02/01/2024")
              [] ParseDate(v[2]) = DateV("2024-02-01") -> StrV("01/02/2024")
              [] OTHER -> Null)
      [] v[1] = "int" -> DateV("epoch+" \o IntStr(v[2]))
      [] v[1] = "dt" -> v
      [] OTHER -> Null

\* one element of pd.to_datetime(..., errors="coerce"): a string is parsed,
\* an integer counts from the epoch, a timestamp stays, the rest is NaT
to_datetime(v) ==
    CASE v[1] = "str" -> ParseDate(v[2])
      [] v[1] = "int" -> DateV("epoch+" \o IntStr(v[2]))
      [] v[1] = "dt" -> v
      [] OTHER -> Null

\* pd.api.types.is_object_dtype of a column: it holds text, or nothing but
\* None.  (A column of NaT only is taken for one of None only; converting it
\* again yields the same column.)
is_object_dtype(f, c) ==
    \/ \E i \in DOMAIN f.rows : f.rows[i][c][1] = "str"
    \/ \A i \in DOMAIN f.rows : f.rows[i][c][1] = "null"

\* lines 98-101: a copy with every missing desired column added as None
AddMissing(f) ==
    LET missing == SelectSeq(desired_cols, LAMBDA c : c \notin Range(f.cols))
    IN  [cols |-> f.cols \o missing,
         rows |-> [i \in DOMAIN f.rows |->
                     [c \in Range(f.cols) \cup Range(missing) |->
                        IF c \in Range(f.cols) THEN f.rows[i][c] ELSE Null]]]

\* lines 104-106
ConvertDates(f) ==
    IF is_object_dtype(f, "lastUpdateDate")
    THEN [f EXCEPT !.rows = [i \in DOMAIN f.rows |->
                               [f.rows[i] EXCEPT !["lastUpdateDate"] = to_datetime(@)]]]
    ELSE f

\* variant: the whole frame is returned, extra columns included
SelectDesired_all(f) == f

\* line 108: out[desired_cols]
SelectDesired(f) ==
    [cols |-> desired_cols,
     rows |-> [i \in DOMAIN f.rows |-> [c \in Range(desired_cols) |-> f.rows[i][c]]]]

normalize_products_df(f) == SelectDesired(ConvertDates(AddMissing(f)))

\* raw collections: records with any of these fields, in this order
RawCols == <<"categoryName", "lastUpdateDate", "productContentId", "salePrice">>
DateVals == {Null, IntV(1), StrV("01/02/2024"), StrV("x")}
RawRows(chosen) ==
    {[c \in chosen |->
        CASE c = "categoryName" -> StrV("c")
          [] c = "lastUpdateDate" -> dv
          [] c = "productContentId" -> IntV(k)
          [] OTHER -> v] :
     k \in (IF "productContentId" \in chosen THEN 1..MaxKey ELSE {1}),
     v \in (IF "salePrice" \in chosen THEN Vals ELSE {Null}),
     dv \in (IF "lastUpdateDate" \in chosen THEN DateVals ELSE {Null})}
RawFrames ==
    {[cols |-> SelectSeq(RawCols, LAMBDA c : c \in fr[1]), rows |-> fr[2]] :
        fr \in UNION {{ch} \X SeqsUpTo(RawRows(ch), MaxNormRows) : ch \in SUBSET Range(RawCols)}}

NormInit ==
    /\ n_pc = "start"
    /\ n_in \in RawFrames
    /\ n_out = NoFrame
    /\ n_again = NoFrame

\* out = normalize_products_df(df): df.copy() leaves the argument alone
Normalize ==
    /\ n_pc = "start"
    /\ n_out' = normalize_products_df(n_in)
    /\ n_pc' = "once"
    /\ UNCHANGED <<n_in, n_again>>
    /\ UNCHANGED <<fetchVars, mergeVars, appVars>>

\* the normalizer applied to its own output
NormalizeAgain ==
    /\ n_pc = "once"
    /\ n_again' = normalize_products_df(n_out)
    /\ n_pc' = "twice"
    /\ UNCHANGED <<n_in, n_out>>
    /\ UNCHANGED <<fetchVars, mergeVars, appVars>>

\* lines 270-317, reached after the `with st.spinner` block whether or not
\* the merge failed: the report panels read missing_df (276), diff_df (297)
\* and merged (311).  A name this run never bound raises NameError, which
\* ends the run.
RenderReports ==
    /\ mpc \in {"error_shown", "reported"}
    /\ mpc' = IF {"missing_df", "diff_df", "merged"} \subseteq defined
              THEN "done"
              ELSE "raised"
    /\ UNCHANGED <<df_prev, df_current, merged, merge_err, missing_df, diff_df, defined>>
    /\ UNCHANGED <<fetchVars, normVars, appVars>>

NormIdle ==
    /\ n_pc = "idle"
    /\ n_in = NoFrame
    /\ n_out = NoFrame
    /\ n_again = NoFrame

\* lines 192-195 on a new session, nothing cached
AppIdle ==
    /\ a_pc = "idle"
    /\ cache = NoEntry
    /\ df_today = None
    /\ presses = 0
    /\ last_good = None

FetchIdle ==
    /\ pc = "idle"
    /\ catalog = 0
    /\ page_size = 1
    /\ page = 0
    /\ url = 0
    /\ attempt = 0
    /\ all_products = <<>>
    /\ products_on_page = Unbound
    /\ df = EmptyFrame
    /\ err = "None"
    /\ nreq = 0
    /\ ppage = 0 - 1
    /\ preq = 0
    /\ outcome = "none"
    /\ seen = {}
    /\ pseen = {}
    /\ exhausted = {}

InitMerge == FetchIdle /\ MergeInit /\ NormIdle /\ AppIdle
NextMerge ==
    \/ SmartMerge
    \/ ShowMergeError
    \/ BuildReports
    \/ RenderReports
SpecMerge == InitMerge /\ [][NextMerge]_vars

MergeIdle ==
    /\ mpc = "idle"
    /\ df_prev = NoFrame
    /\ df_current = NoFrame
    /\ merged = NoFrame
    /\ merge_err = "None"
    /\ missing_df = <<>>
    /\ diff_df = <<>>
    /\ defined = {}

InitNorm == FetchIdle /\ MergeIdle /\ NormInit /\ AppIdle
NextNorm ==
    \/ Normalize
    \/ NormalizeAgain
SpecNorm == InitNorm /\ [][NextNorm]_vars

\* The 5th 429 on page MaxPage.  The for loop runs out and the cursor moves
\* on as in AfterFor; MaxPage - 1 and every page from it on lie past the end
\* of the catalogue and are served alike (empty), so page numbers above
\* MaxPage are folded back onto MaxPage - 1.
Resp429Beyond ==
    /\ Issue("429")
    /\ page = MaxPage
    /\ attempt + 1 = max_retries
    /\ products_on_page.bound
    /\ ~(Len(products_on_page.items) < page_size)
    /\ exhausted' = exhausted \cup {page}
    /\ page' = MaxPage - 1
    /\ url' = MaxPage - 1
    /\ attempt' = 0
    /\ UNCHANGED <<pc, df, err, all_products, products_on_page>>

Init == FetchInit /\ MergeIdle /\ NormIdle /\ AppIdle
Next ==
    \/ Resp200
    \/ Resp429
    \/ RespHttpError
    \/ TransportError
    \/ RespBadBody
Spec == Init /\ [][Next]_vars

\* The same call with the page cursor followed past MaxPage, and every
\* request completing: while the call is in its loop it takes a next step.
NextLive ==
    \/ Resp200
    \/ Resp429
    \/ RespHttpError
    \/ TransportError
    \/ RespBadBody
    \/ Resp429Beyond
SpecLive == Init /\ [][NextLive]_vars /\ WF_vars(NextLive)

(***************************************************************************)
(* One session of the page (lines 192-317).  Every interaction reruns the  *)
(* script from the top with a fresh namespace; st.session_state and the    *)
(* st.cache_data entry of the fetch arguments outlive the run.  The fetch  *)
(* arguments (seller id, headers, page size) are the same on every press.  *)
(***************************************************************************)
MaxAppRecords == 1
MaxPresses == 2

\* pd.DataFrame(all_products) (line 77): one row per record, with the fields
\* the API delivers for it; the identity is a number
RawOf(d) ==
    [cols |-> <<"productContentId", "salePrice">>,
     rows |-> [i \in DOMAIN d |->
                 [c \in {"productContentId", "salePrice"} |->
                    IF c = "productContentId" THEN IntV(d[i]) ELSE IntV(1)]]]

\* previous snapshots uploaded in a session: one row, identified by
\* productContentId, by id, or by nothing
AppPrevFrames ==
    {[cols |-> <<c>>, rows |-> <<[x \in {c} |-> IntV(1)]>>] :
        c \in {"productContentId", "id", "salePrice"}}

RunOver == mpc \in {"idle", "done", "raised"}

\* a new run: the names of the previous run are gone
FreshRun ==
    /\ df_prev' = NoFrame
    /\ merged' = NoFrame
    /\ merge_err' = "None"
    /\ missing_df' = <<>>
    /\ diff_df' = <<>>
    /\ defined' = {}

\* the call is over: its locals and its request history are gone
CallOver ==
    /\ pc' = "idle"
    /\ page' = 0
    /\ url' = 0
    /\ attempt' = 0
    /\ all_products' = <<>>
    /\ products_on_page' = Unbound
    /\ df' = EmptyFrame
    /\ err' = "None"
    /\ nreq' = 0
    /\ ppage' = 0 - 1
    /\ preq' = 0
    /\ outcome' = "none"
    /\ seen' = {}
    /\ pseen' = {}
    /\ exhausted' = {}
    /\ UNCHANGED <<catalog, page_size>>

\* the button is pressed (line 225) and nothing is cached for the arguments:
\* the body of fetch_products_from_trendyol runs (lines 44-48)
PressFetch ==
    /\ a_pc \in {"idle", "raised"}
    /\ RunOver
    /\ presses < MaxPresses
    /\ ~cache.hit
    /\ presses' = presses + 1
    /\ a_pc' = "fetching"
    /\ pc' = "loop"
    /\ catalog' \in 0..MaxAppRecords
    /\ page' = 0
    /\ url' = 0
    /\ attempt' = 0
    /\ all_products' = <<>>
    /\ products_on_page' = Unbound
    /\ df' = EmptyFrame
    /\ err' = "None"
    /\ nreq' = 0
    /\ ppage' = 0 - 1
    /\ preq' = 0
    /\ outcome' = "none"
    /\ seen' = {}
    /\ pseen' = {}
    /\ exhausted' = {}
    /\ mpc' = "idle"
    /\ FreshRun
    /\ UNCHANGED <<page_size, df_current, cache, df_today, last_good, normVars>>

\* the button is pressed within the ttl of a stored entry: st.cache_data
\* (line 42) hands back the stored return value, the body does not run
PressFetchCached ==
    /\ a_pc \in {"idle", "raised"}
    /\ RunOver
    /\ presses < MaxPresses
    /\ cache.hit
    /\ presses' = presses + 1
    /\ a_pc' = "fetching"
    /\ pc' = "returned"
    /\ df' = cache.df
    /\ err' = cache.err
    /\ mpc' = "idle"
    /\ FreshRun
    /\ UNCHANGED <<catalog, page_size, page, url, attempt, all_products,
                   products_on_page, nreq, ppage, preq, outcome, seen, pseen,
                   exhausted>>
    /\ UNCHANGED <<df_current, cache, df_today, last_good, normVars>>

\* the call returns: st.cache_data stores the return value, whatever it is
\* (line 42), and the handler looks at it (lines 231-241)
FetchDone ==
    /\ a_pc = "fetching"
    /\ pc = "returned"
    /\ cache' = [hit |-> TRUE, df |-> df, err |-> err]
    /\ IF err = "None" /\ df # EmptyFrame
       THEN /\ df_today' = Some(df)
            /\ df_current' = normalize_products_df(RawOf(df))
            /\ last_good' = Some(df)
       ELSE UNCHANGED <<df_today, df_current, last_good>>
    /\ a_pc' = "idle"
    /\ CallOver
    /\ UNCHANGED <<mpc, df_prev, merged, merge_err, missing_df, diff_df, defined>>
    /\ UNCHANGED <<presses, normVars>>

\* the call raises (UnboundLocalError at line 73): nothing is stored, the
\* exception ends the run
FetchRaised ==
    /\ a_pc = "fetching"
    /\ pc = "raised"
    /\ a_pc' = "raised"
    /\ CallOver
    /\ UNCHANGED <<mergeVars, normVars, cache, df_today, presses, last_good>>

\* ttl = 10 * 60 (line 42): the stored entry expires
CacheExpire ==
    /\ a_pc \in {"idle", "raised"}
    /\ cache.hit
    /\ cache' = NoEntry
    /\ UNCHANGED <<fetchVars, mergeVars, normVars, a_pc, df_today, presses, last_good>>

\* a run with a file in the uploader (lines 246-258): step 2 is offered only
\* when df_today_norm is set; the file is read into a non-empty df_prev
Upload ==
    /\ a_pc \in {"idle", "raised"}
    /\ RunOver
    /\ df_current # NoFrame
    /\ mpc' = "uploaded"
    /\ df_prev' \in AppPrevFrames
    /\ merged' = NoFrame
    /\ merge_err' = "None"
    /\ missing_df' = <<>>
    /\ diff_df' = <<>>
    /\ defined' = {"df_prev"}
    /\ a_pc' = "idle"
    /\ UNCHANGED <<fetchVars, normVars, df_current, cache, df_today, presses, last_good>>

InitApp ==
    /\ FetchIdle
    /\ MergeIdle
    /\ NormIdle
    /\ AppIdle
NextApp ==
    \/ PressFetch
    \/ PressFetchCached
    \/ Resp200
    \/ Resp429
    \/ RespHttpError
    \/ TransportError
    \/ RespBadBody
    \/ FetchDone
    \/ FetchRaised
    \/ CacheExpire
    \/ Upload
    \/ SmartMerge
    \/ ShowMergeError
    \/ BuildReports
    \/ RenderReports
SpecApp == InitApp /\ [][NextApp]_vars

(***************************************************************************)
(* Properties of fetch_products_from_trendyol (checked under Spec)         *)
(***************************************************************************)
RECURSIVE PagesUpTo(_)
PagesUpTo(p) == IF p < 0 THEN <<>> ELSE PagesUpTo(p - 1) \o PageOf(p)

Returned == pc = "returned"
Failed == pc = "returned" /\ err # "None"
Requesting == nreq' = nreq + 1

\* C1: whenever the fetch returns with error None, the returned records are
\* the concatenation, in page order, of every page from page 0 up to and
\* including the first short page: none skipped, none twice.
C1_CompleteOnSuccess ==
    (Returned /\ err = "None") => df = PagesUpTo(LastPage)

\* C2: once all 5 attempts for a page have received 429, the fetch has
\* returned a failure (empty collection, non-null error); it neither goes on
\* to the next page nor ends in another way.
C2_RateLimitExhaustionFails ==
    (preq = max_retries /\ pseen = {"429"}) => (Failed /\ df = EmptyFrame)

\* C3: when every request is answered 200, the fetch returns error None with
\* (pages-1)*n + k records after exactly `pages` requests, where the backend
\* serves pages-1 full pages and a last page of k < n records; a full page is
\* always followed by a request for the next page and a short page is always
\* the last request.
C3_PageCount ==
    /\ [](seen \subseteq {"200"} => pc # "raised")
    /\ []((Returned /\ seen \subseteq {"200"}) =>
            /\ err = "None"
            /\ Len(df) = LastPage * page_size + PageLen(LastPage)
            /\ nreq = LastPage + 1)
    /\ [][(Requesting /\ outcome' = "200") =>
            /\ (PageLen(ppage') = page_size => (pc' = "loop" /\ url' = ppage' + 1))
            /\ (PageLen(ppage') < page_size => pc' = "returned")]_vars
    /\ [][(Requesting /\ outcome = "200") =>
            (PageLen(ppage) = page_size /\ ppage' = ppage + 1)]_vars

C3_Witness ==
    /\ Returned
    /\ seen = {"200"}
    /\ nreq >= 2
    /\ PageLen(LastPage) > 0
    /\ Len(df) = catalog

\* C4: a response with an error status other than 429 makes the fetch return
\* a failure after that single request: no further request is issued.
C4_HttpErrorAborts ==
    outcome = "http" => (Failed /\ df = EmptyFrame)

\* C5: after a 429, the retry goes to the same page number and the cursor
\* does not move; a 200 received on such a retry appends that page's records
\* once and the page is not requested again; and a fetch that saw only 200
\* and 429 responses, with no page running out of attempts, returns error
\* None with the whole catalogue.
C5_RetrySamePage ==
    /\ [][(Requesting /\ "429" \in pseen /\ outcome # "200" /\ preq < max_retries) =>
            (ppage' = ppage /\ page = ppage /\ preq' = preq + 1)]_vars
    /\ [][(Requesting /\ outcome' = "429" /\ preq' < max_retries) =>
            (page' = page /\ url' = url /\ all_products' = all_products)]_vars
    /\ [][(Requesting /\ outcome' = "200" /\ "429" \in pseen') =>
            (ppage' = ppage /\ all_products' = all_products \o PageOf(ppage'))]_vars
    /\ [][(Requesting /\ outcome = "200") => ppage' # ppage]_vars
    /\ []((seen \subseteq {"200", "429"} /\ exhausted = {}) => pc # "raised")
    /\ []((Returned /\ seen \subseteq {"200", "429"} /\ exhausted = {}) =>
            (err = "None" /\ df = WholeCatalog))

C5_Witness ==
    /\ Returned
    /\ err = "None"
    /\ seen = {"200", "429"}
    /\ pseen = {"200", "429"}
    /\ exhausted = {}
    /\ ppage > 0
    /\ df = WholeCatalog

\* C6: no page is requested more than 5 times, 429 responses and transport
\* errors counting against the same budget; and when all 5 attempts for a
\* page raise a transport error the fetch returns a failure after exactly 5
\* requests for that page.
C6_AttemptBudget ==
    /\ [](preq <= max_retries)
    /\ [][ppage' >= ppage]_vars
    /\ []((preq = max_retries /\ pseen = {"transport"}) => (Failed /\ df = EmptyFrame))
    /\ []((Failed /\ pseen = {"transport"}) => preq = max_retries)
    /\ []((preq = max_retries /\ pseen \subseteq {"429", "transport"}) => pc # "loop" \/ page # ppage)

C6_Witness ==
    /\ Failed
    /\ preq = max_retries
    /\ pseen = {"transport"}
    /\ ppage > 0

\* C7: whenever the fetch returns a non-null error the returned collection
\* is empty, however many pages had been accumulated before.
C7_FailureIsEmpty ==
    Failed => df = EmptyFrame

C7_Witness ==
    /\ Failed
    /\ Len(all_products) >= 2
    /\ ppage >= 1

(***************************************************************************)
(* Properties of the comparison step (checked under SpecMerge)             *)
(***************************************************************************)
Joined == mpc \in {"merged", "reported", "done"}
Reported == mpc \in {"reported", "done"}
\* after SmartMerge: the previous snapshot as joined, and the key sets
PrevJoined == ResolvedPrev(df_prev)
PrevKeys == {r[KeyCol] : r \in Range(PrevJoined.rows)}
CurKeys == {r[KeyCol] : r \in Range(df_current.rows)}
DiffKeys == {d[KeyCol] : d \in Range(diff_df)}

\* C8: the joined view holds every previous row exactly once, in previous
\* order, and no row for a key that occurs only in current, also when a key
\* occurs on several current records.
C8_EveryPrevRowOnce ==
    Joined =>
        /\ Len(merged.rows) = Len(PrevJoined.rows)
        /\ \A i \in DOMAIN merged.rows :
              /\ i \in DOMAIN PrevJoined.rows
              /\ \A c \in Range(PrevJoined.cols) :
                    merged.rows[i][LeftName(c, PrevJoined, df_current)] = PrevJoined.rows[i][c]
        /\ \A i \in DOMAIN merged.rows : merged.rows[i][KeyCol] \in PrevKeys

\* C9: every row of the change report belongs to a record whose key is in
\* both previous and current; a record present only in previous never
\* appears in it.
C9_ChangedOnlyIfInBoth ==
    Reported => \A k \in DiffKeys : k \in PrevKeys /\ k \in CurKeys

\* the difference rule of the claim, a tracked field the previous snapshot
\* does not carry counting as null on the previous side
FieldDiffers(p, c, col) ==
    LET prev_v == IF col \in DOMAIN p THEN p[col] ELSE Null
        cur_v == c[col]
    IN  IF isna(prev_v) /\ isna(cur_v) THEN FALSE
        ELSE IF isna(prev_v) \/ isna(cur_v) THEN TRUE
        ELSE prev_v # cur_v

\* C10: a record whose key is in both snapshots is reported as changed
\* exactly when some tracked field differs (both null: no; one null: yes;
\* unequal non-null: yes; a field previous does not carry is null on the
\* previous side); and a snapshot reconciled with itself yields no changed
\* row.
C10_ChangedIffFieldDiffers ==
    Reported =>
        /\ \A k \in PrevKeys \cap CurKeys :
              k \in DiffKeys <=>
                 \E p \in Range(PrevJoined.rows), c \in Range(df_current.rows) :
                    /\ p[KeyCol] = k
                    /\ c[KeyCol] = k
                    /\ \E col \in Range(comparable_cols) : FieldDiffers(p, c, col)
        /\ (PrevJoined = df_current => diff_df = <<>>)

\* the previous snapshot after key resolution, before any coercion
PrevRenamed == IF HasKey(df_prev) THEN df_prev ELSE Rename(df_prev, FoundKey(df_prev.cols))
\* str(key) of the current records
CurKeyStrings == {AsStr(r[KeyCol]) : r \in Range(df_current.rows)}
\* the previous records whose str(key) occurs on no current record
ExpectedMissing ==
    SelectSeq(PrevRenamed.rows, LAMBDA p : AsStr(p[KeyCol]) \notin CurKeyStrings)

\* C11: the missing report holds exactly the previous records whose identity
\* key, compared as a string, occurs in no current record: each of them, in
\* previous order, and no record whose key occurs in current.
C11_MissingExactlyUnmatched ==
    Reported =>
        /\ Len(missing_df) = Len(ExpectedMissing)
        /\ \A i \in DOMAIN missing_df :
              /\ i \in DOMAIN ExpectedMissing
              /\ missing_df[i][KeyCol] = AsStr(ExpectedMissing[i][KeyCol])
              /\ missing_df[i]["_merge"] = StrV("left_only")
              /\ \A c \in Range(PrevRenamed.cols) \ {KeyCol} :
                    missing_df[i][LeftName(c, PrevRenamed, df_current)] = ExpectedMissing[i][c]
        /\ \A i \in DOMAIN missing_df : missing_df[i][KeyCol] \notin CurKeyStrings

C11_Witness ==
    /\ Reported
    /\ Len(missing_df) = 1
    /\ Len(PrevRenamed.rows) = 2
    /\ PrevRenamed.rows[1][KeyCol] \in CurKeyStrings
    /\ "salePrice" \in Range(PrevRenamed.cols)

\* the identity column the claim names for a previous snapshot without
\* productContentId: the first present of contentId, productId, id
ClaimedKey(cols) ==
    IF "contentId" \in cols THEN "contentId"
    ELSE IF "productId" \in cols THEN "productId"
    ELSE IF "id" \in cols THEN "id"
    ELSE ""
MergeFailed == mpc \in {"merge_err", "error_shown", "raised"}

\* C12: a previous snapshot without productContentId is joined on the first
\* column present among contentId, productId, id, an earlier candidate
\* winning over a later one; with none of them the merge returns an error
\* and an empty result and joins nothing.
C12_KeyResolution ==
    (mpc # "uploaded" /\ ~HasKey(df_prev)) =>
        LET cols == Range(df_prev.cols)
            k == ClaimedKey(cols)
        IN  IF k = ""
            THEN /\ MergeFailed
                 /\ merge_err # "None"
                 /\ merged = NoFrame
                 /\ missing_df = <<>>
                 /\ diff_df = <<>>
            ELSE /\ Joined
                 /\ merge_err = "None"
                 /\ k \notin Range(merged.cols)
                 /\ KeyCol \in Range(merged.cols)
                 /\ \A c \in cols \ {k} : LeftName(c, PrevRenamed, df_current) \in Range(merged.cols)
                 /\ {r[KeyCol] : r \in Range(merged.rows)}
                      = {AsStr(p[k]) : p \in Range(df_prev.rows)}

C12_Witness ==
    /\ Joined
    /\ ~HasKey(df_prev)
    /\ Range(df_prev.cols) \cap {"contentId", "productId", "id"} = {"productId", "id"}
    /\ Len(merged.rows) >= 2

\* C13: smart_merge_prev_current leaves its inputs as they were: the current
\* snapshot held in the session and the caller's previous snapshot keep
\* their values and value types, the identity key included.
C13_InputsUnchanged ==
    [][(mpc = "uploaded" /\ mpc' # "uploaded") =>
          (df_current' = df_current /\ df_prev' = df_prev)]_vars

\* C17: every call of the fetch terminates: when each request completes, the
\* fetch returns a result or an error after finitely many requests; 429
\* answers from some page on cannot keep the page loop running forever.
C17_Terminates == <>(pc # "loop")

(***************************************************************************)
(* Properties of normalize_products_df (checked under SpecNorm)            *)
(***************************************************************************)
\* C15: whatever fields the input carries, the output records have exactly
\* the 13 canonical fields in the fixed order; a field absent from the input
\* is null, a field outside the canonical set is dropped, a field the input
\* carries keeps its value (the date parsed), and the input is unchanged.
C15_CanonicalSchema ==
    /\ [](n_pc \in {"once", "twice"} =>
            /\ n_out.cols = desired_cols
            /\ Len(n_out.cols) = 13
            /\ Len(n_out.rows) = Len(n_in.rows)
            /\ \A i \in DOMAIN n_out.rows :
                  /\ DOMAIN n_out.rows[i] = Range(desired_cols)
                  /\ \A c \in Range(desired_cols) :
                        /\ c \notin Range(n_in.cols) => n_out.rows[i][c] = Null
                        /\ (c \in Range(n_in.cols) /\ c # "lastUpdateDate") =>
                              n_out.rows[i][c] = n_in.rows[i][c]
                        /\ (c \in Range(n_in.cols) /\ c = "lastUpdateDate") =>
                              n_out.rows[i][c] \in {n_in.rows[i][c], to_datetime(n_in.rows[i][c])})
    /\ [][n_pc = "start" => n_in' = n_in]_vars

C15_Witness ==
    /\ n_pc = "once"
    /\ Range(n_in.cols) = {"categoryName", "salePrice"}
    /\ Len(n_out.rows) = 2
    /\ n_out.rows[1]["salePrice"] # Null

\* C16: normalize_products_df is idempotent: applied to its own output it
\* returns the same fields, in the same order, with the same values.
C16_Idempotent ==
    n_pc = "twice" => n_again = n_out

C16_Witness ==
    /\ n_pc = "twice"
    /\ Len(n_in.rows) = 2
    /\ {"categoryName", "lastUpdateDate"} \subseteq Range(n_in.cols)
    /\ n_in.rows[1]["lastUpdateDate"] = StrV("01/02/2024")
    /\ n_in.rows[2]["lastUpdateDate"] = StrV("x")
    /\ n_again.rows[1]["lastUpdateDate"] = DateV("2024-01-02")
    /\ n_again.rows[2]["lastUpdateDate"] = Null

\* C18: when key resolution fails the run reports the error, produces no
\* missing report, no change report and no joined export, and completes
\* normally: no later step reads a reconciliation output that was never
\* produced.
C18_FailedMergeCompletes ==
    merge_err # "None" =>
        /\ mpc \in {"merge_err", "error_shown", "done"}
        /\ "missing_df" \notin defined
        /\ "diff_df" \notin defined
        /\ merged = NoFrame

(***************************************************************************)
(* Properties of a session (checked under SpecApp)                         *)
(***************************************************************************)
Pressing == presses' = presses + 1
FetchFailedLast == cache.hit /\ cache.err # "None"

\* C14: only successful fetch results are kept in the fetch cache: a stored
\* entry never holds an error, and a press that follows a fetch which
\* returned an error runs the fetch again (it issues requests) instead of
\* handing back the stored error.
C14_OnlySuccessCached ==
    /\ [](cache.hit => cache.err = "None")
    /\ [][(Pressing /\ FetchFailedLast) => pc' = "loop"]_vars

GoodFetchReturn ==
    /\ a_pc = "fetching"
    /\ pc = "returned"
    /\ err = "None"
    /\ df # EmptyFrame

\* C19: in a session df_today and df_today_norm are both None or both set;
\* they change only on a fetch that returned no error and a non-empty
\* collection; the comparison step is offered exactly when some earlier
\* fetch succeeded with records, and it compares against the snapshot of the
\* latest such fetch.
C19_SessionSnapshots ==
    /\ [](df_today.set <=> df_current # NoFrame)
    /\ [](last_good.set <=> df_current # NoFrame)
    /\ [](df_today = last_good)
    /\ [][(df_today' # df_today \/ df_current' # df_current) => GoodFetchReturn]_vars
    /\ [](mpc = "uploaded" => df_current = normalize_products_df(RawOf(last_good.df)))

====
